---- MODULE Spec2Model ----
(***************************************************************************)
(* Model of src/server.py: the QuoteBox MCP server.                        *)
(*                                                                         *)
(* A Python str is a sequence of one-character strings.  Quotes and other  *)
(* fixed texts that the code never takes apart are single TLA+ strings.    *)
(* Two specifications are given:                                           *)
(*   Spec      the HTTP server: routing, the /sse dispatcher with its      *)
(*             await point, and tool calls arriving through the MCP app;   *)
(*   ToolSpec  the three tool functions applied to inputs drawn in Init.   *)
(***************************************************************************)
EXTENDS Integers, Sequences, FiniteSets, TLC

VARIABLES
    tool_definitions,   \* the module-level list TOOL_DEFINITIONS
    inflight,           \* per client: the POST /sse request awaiting its body
    last,               \* the last HTTP exchange completed by the app
    first_tools,        \* the tool list of the first tools/list response
    call                \* the tool call in progress or completed

vars == <<tool_definitions, inflight, last, first_tools, call>>

\* Longest message given to format_message.
MaxLen == 3

----------------------------------------------------------------------------
\* Python str primitives

Lowercase ==
    <<"a","b","c","d","e","f","g","h","i","j","k","l","m",
      "n","o","p","q","r","s","t","u","v","w","x","y","z">>

Uppercase ==
    <<"A","B","C","D","E","F","G","H","I","J","K","L","M",
      "N","O","P","Q","R","S","T","U","V","W","X","Y","Z">>

Whitespace == {" ", "\n", "\t"}

char_lower(c) ==
    IF \E i \in DOMAIN Uppercase : Uppercase[i] = c
    THEN Lowercase[CHOOSE i \in DOMAIN Uppercase : Uppercase[i] = c]
    ELSE c

char_upper(c) ==
    IF \E i \in DOMAIN Lowercase : Lowercase[i] = c
    THEN Uppercase[CHOOSE i \in DOMAIN Lowercase : Lowercase[i] = c]
    ELSE c

\* str.lower()
str_lower(s) == [i \in 1..Len(s) |-> char_lower(s[i])]

\* str.upper()
str_upper(s) == [i \in 1..Len(s) |-> char_upper(s[i])]

\* str.strip(): drop leading and trailing whitespace
str_strip(s) ==
    LET keep == {i \in 1..Len(s) : s[i] \notin Whitespace}
    IN  IF keep = {} THEN <<>>
        ELSE LET lo == CHOOSE i \in keep : \A j \in keep : i <= j
                 hi == CHOOSE i \in keep : \A j \in keep : j <= i
             IN  SubSeq(s, lo, hi)

\* str.split(sep) for a one-character separator: always at least one piece
RECURSIVE str_split(_, _)
str_split(s, sep) ==
    IF \A i \in 1..Len(s) : s[i] # sep THEN <<s>>
    ELSE LET k == CHOOSE i \in 1..Len(s) :
                      s[i] = sep /\ \A j \in 1..(i-1) : s[j] # sep
         IN  <<SubSeq(s, 1, k-1)>> \o str_split(SubSeq(s, k+1, Len(s)), sep)

\* str.split() without argument: runs of whitespace separate, no empty piece
RECURSIVE str_split_ws(_)
str_split_ws(s) ==
    IF \A i \in 1..Len(s) : s[i] \in Whitespace THEN <<>>
    ELSE LET b == CHOOSE i \in 1..Len(s) :
                      s[i] \notin Whitespace
                      /\ \A j \in 1..(i-1) : s[j] \in Whitespace
             e == CHOOSE i \in b..Len(s) :
                      (\A j \in b..i : s[j] \notin Whitespace)
                      /\ (i = Len(s) \/ s[i+1] \in Whitespace)
         IN  <<SubSeq(s, b, e)>> \o str_split_ws(SubSeq(s, e+1, Len(s)))

\* sep.join(parts)
RECURSIVE str_join(_, _)
str_join(sep, parts) ==
    IF parts = <<>> THEN <<>>
    ELSE IF Len(parts) = 1 THEN parts[1]
    ELSE parts[1] \o sep \o str_join(sep, Tail(parts))

\* c * n
str_repeat(c, n) == [i \in 1..n |-> c]

\* f"{line:<{width}}": pad on the right with spaces, never truncate
format_ljust(line, width) ==
    IF Len(line) >= width THEN line
    ELSE line \o str_repeat(" ", width - Len(line))

\* max(...) over a non-empty sequence of numbers
py_max(ns) == CHOOSE n \in {ns[i] : i \in DOMAIN ns} :
                  \A i \in DOMAIN ns : ns[i] <= n

\* random.choice(seq): any element
random_choice(seq) == {seq[i] : i \in DOMAIN seq}

----------------------------------------------------------------------------
\* Words used as dictionary keys and tool arguments

W_any        == <<"a","n","y">>
W_motivation == <<"m","o","t","i","v","a","t","i","o","n">>
W_wisdom     == <<"w","i","s","d","o","m">>
W_humor      == <<"h","u","m","o","r">>
W_box        == <<"b","o","x">>
W_reverse    == <<"r","e","v","e","r","s","e">>
W_shout      == <<"s","h","o","u","t">>
W_banner     == <<"b","a","n","n","e","r">>

----------------------------------------------------------------------------
\* Data

SERVER_NAME == "QuoteBox"

SERVER_VERSION == "1.0.0"

\* The dict QUOTES in definition order (a Python dict keeps insertion order).
QUOTES ==
    << [key |-> W_motivation, quotes |->
          <<"The only way to do great work is to love what you do. -- Steve Jobs",
            "It does not matter how slowly you go as long as you do not stop. -- Confucius",
            "Everything you've ever wanted is on the other side of fear. -- George Addair",
            "Believe you can and you're halfway there. -- Theodore Roosevelt">>],
       [key |-> W_wisdom, quotes |->
          <<"The unexamined life is not worth living. -- Socrates",
            "In the middle of difficulty lies opportunity. -- Albert Einstein",
            "The secret of getting ahead is getting started. -- Mark Twain",
            "An investment in knowledge pays the best interest. -- Benjamin Franklin">>],
       [key |-> W_humor, quotes |->
          <<"I am so clever that sometimes I don't understand a single word of what I am saying. -- Oscar Wilde",
            "Always borrow money from a pessimist. They never expect it back. -- Unknown",
            "I didn't fail the test. I just found 100 ways to do it wrong. -- Benjamin Franklin",
            "Behind every great man is a woman rolling her eyes. -- Jim Carrey">>] >>

\* cat in QUOTES
quotes_has(cat) == \E i \in DOMAIN QUOTES : QUOTES[i].key = cat

\* QUOTES[cat]
quotes_get(cat) == QUOTES[CHOOSE i \in DOMAIN QUOTES : QUOTES[i].key = cat].quotes

\* [q for qs in QUOTES.values() for q in qs]
RECURSIVE flatten_values(_)
flatten_values(d) ==
    IF d = <<>> THEN <<>> ELSE d[1].quotes \o flatten_values(Tail(d))

ALL_QUOTES == flatten_values(QUOTES)

----------------------------------------------------------------------------
\* Manual tool definitions

\* Faulty variant: the manual list was not updated when server_info was added.
TOOL_DEFINITIONS_without_server_info ==
    << [name |-> "get_quote",
        description |-> "Get a random quote.",
        inputSchema |-> [type |-> "object", properties |-> <<>>]],
       [name |-> "format_message",
        description |-> "Format a message in a fun way.",
        inputSchema |-> [type |-> "object", properties |-> <<>>]] >>

TOOL_DEFINITIONS ==
    << [name |-> "get_quote",
        description |-> "Get a random quote.",
        inputSchema |->
          [type |-> "object",
           properties |->
             [category |->
                [type |-> "string",
                 description |-> "One of 'motivation', 'wisdom', 'humor', or 'any'."]]]],
       [name |-> "format_message",
        description |-> "Format a message in a fun way.",
        inputSchema |->
          [type |-> "object",
           properties |->
             [message |-> [type |-> "string", description |-> "The text to format."],
              style |-> [type |-> "string",
                         description |-> "One of 'box', 'reverse', 'shout', 'banner'."]],
           required |-> <<"message">>]],
       [name |-> "server_info",
        description |-> "Get metadata about this MCP server.",
        inputSchema |-> [type |-> "object", properties |-> <<>>]] >>

\* The functions decorated with @mcp.tool(), in registration order.
McpRegisteredTools == <<"get_quote", "format_message", "server_info">>

----------------------------------------------------------------------------
\* MCP tool logic.  A tool returns a str; the two f-string error messages are
\* kept as their template, the interpolated value and the names they list.

Text(chars) == [kind |-> "text", chars |-> chars]

Quote(q) == [kind |-> "quote", text |-> q]

\* f"Unknown category '{cat}'. Choose from: motivation, wisdom, humor, any."
UnknownCategoryMessage(cat) ==
    [kind |-> "message", head |-> "Unknown category", quoted |-> cat,
     choose_from |-> <<W_motivation, W_wisdom, W_humor, W_any>>]

\* f"Unknown style '{s}'. Choose from: box, reverse, shout, banner."
UnknownStyleMessage(s) ==
    [kind |-> "message", head |-> "Unknown style", quoted |-> s,
     choose_from |-> <<W_box, W_reverse, W_shout, W_banner>>]

\* Faulty variant: every known category draws from ALL_QUOTES.
get_quote_from_all(category) ==
    LET cat == str_strip(str_lower(category))
    IN  IF cat = W_any THEN {Quote(q) : q \in random_choice(ALL_QUOTES)}
        ELSE IF ~quotes_has(cat) THEN {UnknownCategoryMessage(cat)}
        ELSE {Quote(q) : q \in random_choice(ALL_QUOTES)}

\* Faulty variant: an unknown category falls back to a quote of any category.
get_quote_fallback(category) ==
    LET cat == str_strip(str_lower(category))
    IN  IF cat = W_any \/ ~quotes_has(cat)
        THEN {Quote(q) : q \in random_choice(ALL_QUOTES)}
        ELSE {Quote(q) : q \in random_choice(quotes_get(cat))}

\* get_quote(category): the set of values the call may return
get_quote(category) ==
    LET cat == str_strip(str_lower(category))
    IN  IF cat = W_any THEN {Quote(q) : q \in random_choice(ALL_QUOTES)}
        ELSE IF ~quotes_has(cat) THEN {UnknownCategoryMessage(cat)}
        ELSE {Quote(q) : q \in random_choice(quotes_get(cat))}

\* Faulty variant: f"* {line} *", the body lines are not padded.
_style_box_unpadded(msg) ==
    LET lines  == str_split(msg, "\n")
        width  == py_max([i \in DOMAIN lines |-> Len(lines[i])])
        border == str_repeat("*", width + 4)
        body   == str_join(<<"\n">>,
                      [i \in DOMAIN lines |-> <<"*", " ">> \o lines[i] \o <<" ", "*">>])
    IN  border \o <<"\n">> \o body \o <<"\n">> \o border

_style_box(msg) ==
    LET lines  == str_split(msg, "\n")
        width  == py_max([i \in DOMAIN lines |-> Len(lines[i])])
        border == str_repeat("*", width + 4)
        body   == str_join(<<"\n">>,
                      [i \in DOMAIN lines |->
                          <<"*", " ">> \o format_ljust(lines[i], width) \o <<" ", "*">>])
    IN  border \o <<"\n">> \o body \o <<"\n">> \o border

_style_reverse(msg) == [i \in 1..Len(msg) |-> msg[Len(msg) + 1 - i]]

\* Faulty variant: msg.upper().split(" "), which keeps empty tokens and newlines.
_style_shout_split_space(msg) ==
    str_join(<<" ", "!", " ">>, str_split(str_upper(msg), " ")) \o <<" ", "!", "!", "!">>

_style_shout(msg) ==
    str_join(<<" ", "!", " ">>, str_split_ws(str_upper(msg))) \o <<" ", "!", "!", "!">>

_style_banner(msg) ==
    LET kept == SelectSeq(msg, LAMBDA c : c \notin Whitespace)
    IN  str_join(<<" ", " ">>,
            [i \in DOMAIN kept |-> str_repeat(char_upper(kept[i]), 3)])

\* The keys of the dict STYLES.
STYLES == {W_box, W_reverse, W_shout, W_banner}

\* STYLES[s](message)
styles_apply(s, message) ==
    CASE s = W_box     -> _style_box(message)
      [] s = W_reverse -> _style_reverse(message)
      [] s = W_shout   -> _style_shout(message)
      [] s = W_banner  -> _style_banner(message)

\* Faulty variant: s = style.strip(), the style is looked up as it is cased.
format_message_cased(message, style) ==
    LET s == str_strip(style)
    IN  IF s \notin STYLES THEN UnknownStyleMessage(s)
        ELSE Text(styles_apply(s, message))

format_message(message, style) ==
    LET s == str_strip(str_lower(style))
    IN  IF s \notin STYLES THEN UnknownStyleMessage(s)
        ELSE Text(styles_apply(s, message))

\* server_info(): the four lines, with the clock reading and sys.version given
server_info(now, python) ==
    LET tools == <<"get_quote", "format_message", "server_info">>
    IN  [kind   |-> "info",
         Server |-> <<SERVER_NAME, SERVER_VERSION>>,
         Python |-> python,
         Tools  |-> tools,
         Time   |-> now]

----------------------------------------------------------------------------
\* JSON values as Python objects, tagged with their Python type

JStr(s) == [t |-> "str", v |-> s]

JInt(n) == [t |-> "int", v |-> n]

JNone == [t |-> "NoneType", v |-> <<>>]

JList(xs) == [t |-> "list", v |-> xs]

JDict(f) == [t |-> "dict", v |-> f]

EmptyDict == JDict(<<>>)

\* isinstance(x, dict)
isinstance_dict(x) == x.t = "dict"

\* d.get(key, default); d.get(key) has default None
dict_get(d, key, default) == IF key \in DOMAIN d.v THEN d.v[key] ELSE default

\* x == "literal" for any Python object x
py_eq_str(x, literal) == x.t = "str" /\ x.v = literal

\* await request.json(): the parsed body, or an exception (bytes that are
\* not JSON, or the client going away while the body is read)
request_json(request) ==
    IF request.body.parses
    THEN [raised |-> FALSE, value |-> request.body.value]
    ELSE [raised |-> TRUE, value |-> JNone]

\* JSONResponse(content): status_code defaults to 200
JSONResponse(content) == [status |-> 200, body |-> content]

----------------------------------------------------------------------------
\* The smart handler

\* Faulty variant: body.get("id"), without the default.
handle_sse_post_smart_no_default(request, tools) ==
    LET r    == request_json(request)
        body == IF r.raised THEN EmptyDict ELSE r.value
    IN  IF isinstance_dict(body)
           /\ py_eq_str(dict_get(body, "method", JNone), "tools/list")
        THEN JSONResponse([jsonrpc |-> "2.0",
                           id      |-> dict_get(body, "id", JNone),
                           result  |-> [tools |-> tools]])
        ELSE JSONResponse([status |-> "online", protocol |-> "sse"])

\* Faulty variant: no try/except, a body that does not parse ends in an error response.
handle_sse_post_smart_unguarded(request, tools) ==
    LET r == request_json(request)
    IN  IF r.raised
        THEN [status |-> 500, body |-> [status |-> "error", protocol |-> "sse"]]
        ELSE IF isinstance_dict(r.value)
                /\ py_eq_str(dict_get(r.value, "method", JNone), "tools/list")
        THEN JSONResponse([jsonrpc |-> "2.0",
                           id      |-> dict_get(r.value, "id", JInt(1)),
                           result  |-> [tools |-> tools]])
        ELSE JSONResponse([status |-> "online", protocol |-> "sse"])

handle_sse_post_smart(request, tools) ==
    LET r    == request_json(request)
        body == IF r.raised THEN EmptyDict ELSE r.value
    IN  IF isinstance_dict(body)
           /\ py_eq_str(dict_get(body, "method", JNone), "tools/list")
        THEN JSONResponse([jsonrpc |-> "2.0",
                           id      |-> dict_get(body, "id", JInt(1)),
                           result  |-> [tools |-> tools]])
        ELSE JSONResponse([status |-> "online", protocol |-> "sse"])

----------------------------------------------------------------------------
\* Server setup: the route table and Starlette's router over it

\* Faulty variant: the mount listed first, so that it takes every request.
routes_mount_first ==
    << [kind |-> "Mount", path |-> "/", methods |-> {},
        target |-> "mcp_app"],
       [kind |-> "Route", path |-> "/sse", methods |-> {"POST"},
        target |-> "handle_sse_post_smart"] >>

routes ==
    << [kind |-> "Route", path |-> "/sse", methods |-> {"POST"},
        target |-> "handle_sse_post_smart"],
       [kind |-> "Mount", path |-> "/", methods |-> {},
        target |-> "mcp_app"] >>

\* Route.matches / Mount.matches: a Route matches its exact path, fully when
\* the method is one of its methods; Mount("/") matches every path below it
route_matches(route, request) ==
    IF route.kind = "Route"
    THEN IF request.path # route.path THEN "NONE"
         ELSE IF request.method \in route.methods THEN "FULL"
         ELSE "PARTIAL"
    ELSE IF route.path = "/" \/ request.path = route.path THEN "FULL"
    ELSE "NONE"

\* Router.app: the first full match, else the first partial one
app(table, request) ==
    LET full    == {i \in DOMAIN table : route_matches(table[i], request) = "FULL"}
        partial == {i \in DOMAIN table : route_matches(table[i], request) = "PARTIAL"}
        first(S) == CHOOSE i \in S : \A j \in S : i <= j
    IN  IF full # {} THEN table[first(full)].target
        ELSE IF partial # {} THEN table[first(partial)].target
        ELSE "not_found"

----------------------------------------------------------------------------
\* Inputs

\* Characters of the messages: a lower-case and an upper-case letter, a
\* space and a newline.
MsgChars == {"a", "B", " ", "\n"}

Messages == UNION {[1..n -> MsgChars] : n \in 0..MaxLen}

W_nope == <<"n","o","p","e">>

\* The word as written, in upper case, and capitalised.
Casings(w) ==
    {w, str_upper(w), [i \in 1..Len(w) |-> IF i = 1 THEN char_upper(w[i]) ELSE w[i]]}

\* Each casing of each word, bare and with whitespace around it.
Spellings(words) ==
    {pre \o x \o post :
        pre \in {<<>>, <<" ">>}, post \in {<<>>, <<" ", "\n">>},
        x \in UNION {Casings(w) : w \in words}}

CategoryInputs ==
    Spellings({W_any, W_motivation, W_wisdom, W_humor, W_nope, W_box,
               <<>>, <<"a","n"," ","y">>})

StyleInputs ==
    Spellings({W_box, W_reverse, W_shout, W_banner, W_nope, W_any,
               <<>>, <<"b"," ","o","x">>})

\* Readings of datetime.now(timezone.utc).strftime("%Y-%m-%d %H:%M:%S UTC")
Times == {"2024-02-29 00:00:00 UTC", "2025-12-31 23:59:59 UTC"}

\* sys.version.split()[0]
PythonVersions == {"3.11.9"}

\* A tool call: the keyword arguments given; an argument left out takes the
\* default of the function's signature.
GetQuoteCalls ==
    {[op |-> "get_quote", args |-> <<>>]}
    \cup {[op |-> "get_quote", args |-> [category |-> c]] : c \in CategoryInputs}

FormatMessageCalls ==
    {[op |-> "format_message", args |-> [message |-> m]] : m \in Messages}
    \cup {[op |-> "format_message", args |-> [message |-> m, style |-> s]] :
             m \in Messages, s \in StyleInputs}

ServerInfoCalls == {[op |-> "server_info", args |-> <<>>]}

ToolCalls == GetQuoteCalls \cup FormatMessageCalls \cup ServerInfoCalls

\* The calls made through the MCP app while the HTTP server is observed.
SampleCalls ==
    {[op |-> "get_quote", args |-> [category |-> W_motivation]],
     [op |-> "format_message", args |-> [message |-> <<"a", "\n">>]],
     [op |-> "server_info", args |-> <<>>]}

Pending(c) == [op |-> c.op, args |-> c.args, status |-> "pending"]

Done(c, r) == [op |-> c.op, args |-> c.args, status |-> "done", result |-> r]

NoCall == [op |-> "none", args |-> <<>>, status |-> "idle"]

\* Request bodies: bytes that do not parse, and JSON documents
Unparsable == [parses |-> FALSE, value |-> JNone]

Parsed(v) == [parses |-> TRUE, value |-> v]

DictBodies ==
    {Parsed(JDict(<<>>)),
     Parsed(JDict([method |-> JStr("tools/list")])),
     Parsed(JDict([method |-> JStr("tools/list"), id |-> JInt(7)])),
     Parsed(JDict([method |-> JStr("tools/list"), id |-> JStr("abc")])),
     Parsed(JDict([method |-> JStr("tools/call"), id |-> JInt(7)])),
     Parsed(JDict([method |-> JList(<<JStr("tools/list")>>)])),
     Parsed(JDict([id |-> JInt(7)]))}

Bodies ==
    DictBodies
    \cup {Unparsable, Parsed(JStr("tools/list")), Parsed(JList(<<JStr("tools/list")>>))}

Methods == {"GET", "POST"}

Paths == {"/sse", "/sse/", "/messages/"}

\* Every request to POST /sse, and on the other routes a request with a
\* tools/list body and one with no readable body.
Requests ==
    {[method |-> "POST", path |-> "/sse", body |-> b] : b \in Bodies}
    \cup {[method |-> m, path |-> p, body |-> b] :
             m \in Methods, p \in Paths,
             b \in {Unparsable, Parsed(JDict([method |-> JStr("tools/list"), id |-> JInt(7)]))}}

Clients == {"c1", "c2"}

NoRequest == [method |-> "none", path |-> "", body |-> Unparsable]

----------------------------------------------------------------------------
\* State machine

ServerInit ==
    /\ tool_definitions = TOOL_DEFINITIONS
    /\ inflight = [c \in Clients |-> NoRequest]
    /\ last = [op |-> "none"]
    /\ first_tools = [seen |-> FALSE, tools |-> <<>>, request |-> NoRequest]

Init ==
    /\ ServerInit
    /\ call = NoCall

\* A request arrives and the router hands it to the /sse endpoint, which
\* suspends in "await request.json()".
RouteToHandler(c, request) ==
    /\ inflight[c].method = "none"
    /\ app(routes, request) = "handle_sse_post_smart"
    /\ inflight' = [inflight EXCEPT ![c] = request]
    /\ UNCHANGED <<tool_definitions, last, first_tools, call>>

\* A request arrives and the router hands it to the mounted MCP app.
RouteToMcpApp(c, request) ==
    /\ inflight[c].method = "none"
    /\ app(routes, request) = "mcp_app"
    /\ last' = [op |-> "mcp_app", request |-> request]
    /\ UNCHANGED <<tool_definitions, inflight, first_tools, call>>

IsToolsList(response) == "result" \in DOMAIN response.body

\* Faulty variant: the endpoint consumes the shared list while answering
\* (TOOL_DEFINITIONS.pop() on a tools/list request).
HandleSsePostSmartPopping(c) ==
    /\ inflight[c].method # "none"
    /\ LET response == handle_sse_post_smart(inflight[c], tool_definitions)
       IN  /\ last' = [op |-> "handle_sse_post_smart",
                       request |-> inflight[c], response |-> response]
           /\ first_tools' =
                 IF ~first_tools.seen /\ IsToolsList(response)
                 THEN [seen |-> TRUE, tools |-> response.body.result.tools,
                       request |-> inflight[c]]
                 ELSE first_tools
           /\ tool_definitions' =
                 IF IsToolsList(response) /\ tool_definitions # <<>>
                 THEN SubSeq(tool_definitions, 1, Len(tool_definitions) - 1)
                 ELSE tool_definitions
    /\ inflight' = [inflight EXCEPT ![c] = NoRequest]
    /\ UNCHANGED call

\* The body has arrived (or reading it failed): the endpoint runs to its
\* return without another await.
HandleSsePostSmart(c) ==
    /\ inflight[c].method # "none"
    /\ LET response == handle_sse_post_smart(inflight[c], tool_definitions)
       IN  /\ last' = [op |-> "handle_sse_post_smart",
                       request |-> inflight[c], response |-> response]
           /\ first_tools' =
                 IF ~first_tools.seen /\ IsToolsList(response)
                 THEN [seen |-> TRUE, tools |-> response.body.result.tools,
                       request |-> inflight[c]]
                 ELSE first_tools
    /\ inflight' = [inflight EXCEPT ![c] = NoRequest]
    /\ UNCHANGED <<tool_definitions, call>>

\* The MCP app receives a tools/call message and calls the tool function.
McpCallTool(c) ==
    /\ call.status # "pending"
    /\ call' = Pending(c)
    /\ UNCHANGED <<tool_definitions, inflight, last, first_tools>>

GetQuote ==
    /\ call.status = "pending"
    /\ call.op = "get_quote"
    /\ LET category == IF "category" \in DOMAIN call.args
                       THEN call.args.category ELSE W_any
       IN  \E r \in get_quote(category) : call' = Done(call, r)
    /\ UNCHANGED <<tool_definitions, inflight, last, first_tools>>

FormatMessage ==
    /\ call.status = "pending"
    /\ call.op = "format_message"
    /\ LET style == IF "style" \in DOMAIN call.args
                    THEN call.args.style ELSE W_box
       IN  call' = Done(call, format_message(call.args.message, style))
    /\ UNCHANGED <<tool_definitions, inflight, last, first_tools>>

ServerInfo ==
    /\ call.status = "pending"
    /\ call.op = "server_info"
    /\ \E now \in Times, python \in PythonVersions :
          call' = Done(call, server_info(now, python))
    /\ UNCHANGED <<tool_definitions, inflight, last, first_tools>>

Next ==
    \/ \E c \in Clients, request \in Requests : RouteToHandler(c, request)
    \/ \E c \in Clients, request \in Requests : RouteToMcpApp(c, request)
    \/ \E c \in Clients : HandleSsePostSmart(c)
    \/ \E c \in SampleCalls : McpCallTool(c)
    \/ GetQuote
    \/ FormatMessage
    \/ ServerInfo

Spec == Init /\ [][Next]_vars

\* The tool functions alone, each applied once to an input drawn at the start.
ToolInit ==
    /\ ServerInit
    /\ call \in {Pending(c) : c \in ToolCalls}

ToolNext ==
    \/ GetQuote
    \/ FormatMessage
    \/ ServerInfo

ToolSpec == ToolInit /\ [][ToolNext]_vars

----------------------------------------------------------------------------
\* Vocabulary of the properties, stated without the operators of the code

\* The k-th smallest element of a set of numbers.
Nth(S, k) == CHOOSE x \in S : Cardinality({y \in S : y < x}) = k - 1

\* The newline-separated lines of s, by the positions of its newlines.
LinesOf(s) ==
    LET nl == {i \in 1..Len(s) : s[i] = "\n"}
        n  == Cardinality(nl)
        cut(k) == IF k = 0 THEN 0 ELSE IF k = n + 1 THEN Len(s) + 1 ELSE Nth(nl, k)
    IN  [k \in 1..(n + 1) |-> SubSeq(s, cut(k - 1) + 1, cut(k) - 1)]

\* The maximal runs of non-whitespace characters of s, left to right.
TokensOf(s) ==
    LET starts == {i \in 1..Len(s) :
                      s[i] \notin Whitespace /\ (i = 1 \/ s[i-1] \in Whitespace)}
        stop(i) == CHOOSE j \in i..Len(s) :
                      /\ \A k \in i..j : s[k] \notin Whitespace
                      /\ (j = Len(s) \/ s[j+1] \in Whitespace)
    IN  [k \in 1..Cardinality(starts) |->
            SubSeq(s, Nth(starts, k), stop(Nth(starts, k)))]

\* The tokens with " ! " between consecutive ones.
RECURSIVE Banged(_)
Banged(ts) ==
    IF Len(ts) = 0 THEN <<>>
    ELSE IF Len(ts) = 1 THEN ts[1]
    ELSE Banged(SubSeq(ts, 1, Len(ts) - 1)) \o <<" ", "!", " ">> \o ts[Len(ts)]

\* key is s lower-cased with the whitespace around it removed.
NormalisesTo(s, key) ==
    \E i \in 1..(Len(s) + 1), j \in 0..Len(s) :
        /\ j - i + 1 = Len(key)
        /\ \A k \in 1..Len(key) : char_lower(s[i + k - 1]) = key[k]
        /\ \A k \in 1..(i - 1) : s[k] \in Whitespace
        /\ \A k \in (j + 1)..Len(s) : s[k] \in Whitespace
        /\ Len(key) > 0 => (s[i] \notin Whitespace /\ s[j] \notin Whitespace)

Elements(seq) == {seq[i] : i \in DOMAIN seq}

Stars(n) == [i \in 1..n |-> "*"]

Spaces(n) == [i \in 1..n |-> " "]

\* The dispatcher has answered a request.
Dispatched == last.op = "handle_sse_post_smart"

\* The body of the answered request is a JSON mapping whose method is the
\* string tools/list.
AsksToolsList(request) ==
    /\ request.body.parses
    /\ request.body.value.t = "dict"
    /\ "method" \in DOMAIN request.body.value.v
    /\ request.body.value.v.method.t = "str"
    /\ request.body.value.v.method.v = "tools/list"

HealthPayload == [status |-> "online", protocol |-> "sse"]

CallDone(op) == call.status = "done" /\ call.op = op

CategoryGiven == "category" \in DOMAIN call.args

StyleGiven == "style" \in DOMAIN call.args

----------------------------------------------------------------------------
\* C1: a POST to /sse whose body is a JSON mapping with method "tools/list"
\* is answered with {jsonrpc: "2.0", id, result: {tools}}, where id is the
\* request's id when it has one and 1 otherwise, and tools is the whole of
\* TOOL_DEFINITIONS.
C1_ToolsListEnvelope ==
    (Dispatched /\ AsksToolsList(last.request)) =>
        LET given == last.request.body.value.v
        IN  last.response.body =
                [jsonrpc |-> "2.0",
                 id      |-> IF "id" \in DOMAIN given THEN given.id ELSE JInt(1),
                 result  |-> [tools |-> TOOL_DEFINITIONS]]

\* A tools/list request without an id has been answered with id 1.
C1_Witness ==
    /\ Dispatched
    /\ AsksToolsList(last.request)
    /\ "id" \notin DOMAIN last.request.body.value.v
    /\ last.response.body.id = JInt(1)
    /\ Len(last.response.body.result.tools) = 3

\* C2: a POST to /sse whose body does not declare method "tools/list" (a
\* mapping with another or no method, a JSON value that is no mapping, bytes
\* that do not parse) is answered with status 200 and exactly the health
\* payload; a parse failure is never an error response.
C2_HealthFallback ==
    (Dispatched /\ ~AsksToolsList(last.request)) =>
        last.response = [status |-> 200, body |-> HealthPayload]

\* A request whose body could not be parsed has been answered as healthy.
C2_Witness ==
    /\ Dispatched
    /\ ~last.request.body.parses
    /\ last.response.body = HealthPayload

\* C3: whatever was requested before and whatever is in flight, every
\* tools/list response carries the tool list of the first one, and the
\* registry is the one built at startup.
C3_ToolsListIdempotent ==
    /\ tool_definitions = TOOL_DEFINITIONS
    /\ (Dispatched /\ AsksToolsList(last.request) /\ first_tools.seen) =>
           last.response.body.result.tools = first_tools.tools

\* A tools/list response later than the first one (it answers another
\* request), given after a tool call completed and while another client's
\* request is suspended in the dispatcher.
C3_Witness ==
    /\ Dispatched
    /\ AsksToolsList(last.request)
    /\ first_tools.seen
    /\ first_tools.request # last.request
    /\ call.status = "done"
    /\ \E c \in Clients : inflight[c].method = "POST"

\* C4: the tool list of a tools/list response holds exactly one descriptor
\* per registered tool and none for another name, the names are unique, each
\* descriptor has name, description and inputSchema, and server_info reports
\* the same set of names.
C4_RegistrySnapshot ==
    /\ (Dispatched /\ AsksToolsList(last.request)) =>
           LET tools == last.response.body.result.tools
           IN  /\ Len(tools) = Len(McpRegisteredTools)
               /\ {tools[i].name : i \in DOMAIN tools} = Elements(McpRegisteredTools)
               /\ \A i, j \in DOMAIN tools : tools[i].name = tools[j].name => i = j
               /\ \A i \in DOMAIN tools :
                     {"name", "description", "inputSchema"} \subseteq DOMAIN tools[i]
    /\ CallDone("server_info") =>
           /\ Elements(call.result.Tools) = Elements(McpRegisteredTools)
           /\ Elements(call.result.Tools) =
                 {tool_definitions[i].name : i \in DOMAIN tool_definitions}

\* A tools/list response and a server_info result are both at hand.
C4_Witness ==
    /\ Dispatched
    /\ AsksToolsList(last.request)
    /\ CallDone("server_info")
    /\ Len(call.result.Tools) = 3

\* C10: the dispatcher answers only POST /sse, always with status 200; the
\* MCP app never sees a POST to /sse; every request on another path goes to
\* the MCP app as it arrived.
C10_Routing ==
    /\ Dispatched =>
           /\ last.request.method = "POST" /\ last.request.path = "/sse"
           /\ last.response.status = 200
    /\ \A c \in Clients :
           inflight[c].method # "none" =>
               (inflight[c].method = "POST" /\ inflight[c].path = "/sse")
    /\ last.op = "mcp_app" =>
           /\ ~(last.request.method = "POST" /\ last.request.path = "/sse")
           /\ last.request \in Requests
    /\ \A r \in Requests :
           /\ (r.method = "POST" /\ r.path = "/sse") =>
                  app(routes, r) = "handle_sse_post_smart"
           /\ r.path # "/sse" => app(routes, r) = "mcp_app"

\* A tools/list POST to another path went to the MCP app while a POST to
\* /sse is with the dispatcher.
C10_Witness ==
    /\ last.op = "mcp_app"
    /\ last.request.method = "POST"
    /\ last.request.path = "/messages/"
    /\ AsksToolsList(last.request)
    /\ \E c \in Clients : inflight[c].path = "/sse"

----------------------------------------------------------------------------
\* The category a get_quote call runs with, and the style of a
\* format_message call: the argument, or the default of the signature.
CategoryArg == IF CategoryGiven THEN call.args.category ELSE W_any

StyleArg == IF StyleGiven THEN call.args.style ELSE W_box

QuoteKeys == {QUOTES[i].key : i \in DOMAIN QUOTES}

\* C5: get_quote returns an element of its target sequence: of the
\* category's own sequence (and of no other) when the category, lower-cased
\* and trimmed, is a key of QUOTES; of ALL_QUOTES, the concatenation of the
\* sequences in definition order, when it is "any" or left out.
C5_QuoteFromTarget ==
    /\ ALL_QUOTES = QUOTES[1].quotes \o QUOTES[2].quotes \o QUOTES[3].quotes
    /\ CallDone("get_quote") =>
           /\ \A i \in DOMAIN QUOTES :
                  NormalisesTo(CategoryArg, QUOTES[i].key) =>
                      /\ call.result.kind = "quote"
                      /\ call.result.text \in Elements(QUOTES[i].quotes)
                      /\ \A j \in DOMAIN QUOTES \ {i} :
                             call.result.text \notin Elements(QUOTES[j].quotes)
           /\ NormalisesTo(CategoryArg, W_any) =>
                  /\ call.result.kind = "quote"
                  /\ call.result.text \in Elements(ALL_QUOTES)

\* get_quote(" HUMOR \n") has returned the last humor quote.
C5_Witness ==
    /\ CallDone("get_quote")
    /\ CategoryGiven
    /\ call.args.category = <<" ", "H", "U", "M", "O", "R", " ", "\n">>
    /\ call.result.kind = "quote"
    /\ call.result.text = QUOTES[3].quotes[4]

\* C6: for a category that, lower-cased and trimmed, is neither "any" nor a
\* key of QUOTES, get_quote returns the "Unknown category" message, which
\* lists exactly the keys of QUOTES and "any", and no quote.
C6_UnknownCategory ==
    (CallDone("get_quote")
     /\ \A key \in QuoteKeys \cup {W_any} : ~NormalisesTo(CategoryArg, key)) =>
        /\ call.result.kind = "message"
        /\ call.result.head = "Unknown category"
        /\ Len(call.result.choose_from) = Cardinality(QuoteKeys) + 1
        /\ Elements(call.result.choose_from) = QuoteKeys \cup {W_any}
        /\ "text" \notin DOMAIN call.result

\* get_quote(" Nope") has returned the message.
C6_Witness ==
    /\ CallDone("get_quote")
    /\ CategoryGiven
    /\ call.args.category = <<" ", "N", "o", "p", "e">>
    /\ call.result.kind = "message"
    /\ call.result.head = "Unknown category"

\* C7: format_message(message, "box") is a border, one body line per line of
\* the message in order, and the border again, joined by newlines; the
\* border is width+4 stars, width being the length of the longest line; a
\* body line is "* ", the line padded on the right with spaces to width,
\* " *"; every line of the result is width+4 long.
C7_Box ==
    (CallDone("format_message") /\ (StyleGiven => call.args.style = W_box)) =>
        /\ call.result.kind = "text"
        /\ LET src   == LinesOf(call.args.message)
               out   == LinesOf(call.result.chars)
               width == CHOOSE w \in 0..Len(call.args.message) :
                            /\ \E k \in DOMAIN src : Len(src[k]) = w
                            /\ \A k \in DOMAIN src : Len(src[k]) <= w
           IN  /\ Len(out) = Len(src) + 2
               /\ out[1] = Stars(width + 4)
               /\ out[Len(out)] = Stars(width + 4)
               /\ \A k \in DOMAIN src :
                      out[k + 1] = <<"*", " ">> \o src[k]
                                   \o Spaces(width - Len(src[k])) \o <<" ", "*">>
               /\ \A k \in DOMAIN out : Len(out[k]) = width + 4

\* The box of "aB\n": a two-character line and an empty one padded to it.
C7_Witness ==
    /\ CallDone("format_message")
    /\ StyleGiven
    /\ call.args.style = W_box
    /\ call.args.message = <<"a", "B", "\n">>
    /\ LinesOf(call.result.chars) =
          << <<"*","*","*","*","*","*">>, <<"*"," ","a","B"," ","*">>,
             <<"*"," "," "," "," ","*">>, <<"*","*","*","*","*","*">> >>

\* C8: format_message(message, "shout") is the upper-cased message's
\* whitespace-separated tokens with " ! " between consecutive ones, then
\* " !!!"; runs of whitespace and whitespace at the ends give no empty token.
C8_Shout ==
    (CallDone("format_message") /\ StyleGiven /\ call.args.style = W_shout) =>
        /\ call.result.kind = "text"
        /\ LET tokens == TokensOf(call.args.message)
           IN  /\ \A k \in DOMAIN tokens : Len(tokens[k]) > 0
               /\ call.result.chars =
                     Banged([k \in DOMAIN tokens |->
                                [i \in DOMAIN tokens[k] |-> char_upper(tokens[k][i])]])
                     \o <<" ", "!", "!", "!">>

\* "a a" shouted is "A ! A !!!".
C8_Witness ==
    /\ CallDone("format_message")
    /\ StyleGiven
    /\ call.args.style = W_shout
    /\ call.args.message = <<"a", " ", "a">>
    /\ call.result.chars = <<"A", " ", "!", " ", "A", " ", "!", "!", "!">>

\* C9 as stated: every style whose lower-cased name is not one of box,
\* reverse, shout, banner gets the error string.
C9_UnknownStyleAsStated ==
    (CallDone("format_message") /\ str_lower(StyleArg) \notin STYLES) =>
        call.result.kind = "message"

\* C9 as amended: the style is selected by its name lower-cased and with the
\* whitespace around it removed; a style that is then none of box, reverse,
\* shout, banner gets the "Unknown style" message, which lists exactly the
\* four styles and holds nothing derived from the message; any other style
\* gets the transformed text.
C9_UnknownStyle ==
    CallDone("format_message") =>
        IF \E key \in {W_box, W_reverse, W_shout, W_banner} :
               NormalisesTo(StyleArg, key)
        THEN /\ call.result.kind = "text"
             /\ NormalisesTo(StyleArg, W_reverse) =>
                    /\ Len(call.result.chars) = Len(call.args.message)
                    /\ \A i \in 1..Len(call.args.message) :
                           call.result.chars[i] =
                               call.args.message[Len(call.args.message) + 1 - i]
        ELSE /\ DOMAIN call.result = {"kind", "head", "quoted", "choose_from"}
             /\ call.result.kind = "message"
             /\ call.result.head = "Unknown style"
             /\ NormalisesTo(StyleArg, call.result.quoted)
             /\ call.result.choose_from = <<W_box, W_reverse, W_shout, W_banner>>

\* format_message("a\n", " Nope") has returned the message, naming "nope".
C9_Witness ==
    /\ CallDone("format_message")
    /\ StyleGiven
    /\ call.args.style = <<" ", "N", "o", "p", "e">>
    /\ call.args.message = <<"a", "\n">>
    /\ call.result.kind = "message"
    /\ call.result.quoted = W_nope

====
